---------------------------- MODULE Spec2Model ----------------------------
(***************************************************************************)
(* A model of src/main.rs: the PgConnectionPool (round-robin hand-out of   *)
(* PgConnections through an atomic counter), the PgConnection operations   *)
(* get_user / get_users / update against a users table, the HttpService    *)
(* App::call router, the HttpServiceFactory new_service binding and        *)
(* utils::get_query_param.                                                 *)
(*                                                                         *)
(* Strings are sequences of one-character tokens.  A Result is a record    *)
(* with kind "Ok" / "Err" / "Panic"; "Panic" stands for the unwinding of   *)
(* the task that evaluated the expression.                                 *)
(***************************************************************************)
EXTENDS Integers, Sequences, FiniteSets, TLC

VARIABLES
    phase,      \* "starting" | "serving" | "aborted": position of main()
    size,       \* the pool size main() passes to PgConnectionPool::new
    clients,    \* PgConnectionPool.clients: sequence of PgConnections
    idx,        \* PgConnectionPool.idx: the AtomicUsize counter
    app,        \* per network connection: the task's position and its App
    acq,        \* network connections in the order of their fetch_add
    table,      \* the users table: sequence of rows, database order
    lastOp,     \* the most recent PgConnection operation and its result
    prevOp,     \* the PgConnection operation before lastOp
    rsp,        \* the most recent App::call: request, response, outcome
    path,       \* input of get_query_param under SpecParam
    qres        \* output of get_query_param under SpecParam

vars == <<phase, size, clients, idx, app, acq, table, lastOp, prevOp, rsp,
          path, qres>>

---------------------------------------------------------------------------
(* Bounds of the model. *)

\* largest pool size main() may be given by num_cpus::get()
MaxPool == 2
\* free characters in front of the digits of a generated request path
MaxHead == 3
\* digits at the end of a generated request path
MaxDigits == 5
\* largest number of rows of the users table
MaxRows == 11

\* width in bits of the pool counter: the model's AtomicUsize wraps at
\* 2^UsizeBits (usize itself is 32 or 64 bits wide)
UsizeBits == 4

\* largest pool size of a pool taken up near the wrap of its counter
MaxWrapPool == 3

\* network connections accepted in a run: always more than pool slots
MaxConns == MaxPool + 1

---------------------------------------------------------------------------
(* Constants of the program. *)

\* u16::MAX, the largest value parse::<u16>() accepts
U16_MAX == 65535
\* cmp::min(500, ...)
ClampHi == 500
\* cmp::max(1, ...)
ClampLo == 1
\* unwrap_or(1) and the else branch of get_query_param
DefaultQ == 1
\* "... LIMIT 10"
Limit == 10

RECURSIVE Pow2(_)
Pow2(n) == IF n = 0 THEN 1 ELSE 2 * Pow2(n - 1)

UsizeMod == Pow2(UsizeBits)

---------------------------------------------------------------------------
(* Strings. *)

Digits == {"0", "1", "2", "3", "4", "5", "6", "7", "8", "9"}

\* characters whose UTF-8 encoding is longer than one byte
NonAscii == {"e_acute"}

ByteLen(c) == IF c \in NonAscii THEN 2 ELSE 1

RECURSIVE ByteSize(_)
ByteSize(s) == IF s = <<>> THEN 0 ELSE ByteLen(Head(s)) + ByteSize(Tail(s))

WEBHOOK == <<"/", "w", "e", "b", "h", "o", "o", "k">>
USERS == <<"/", "u", "s", "e", "r", "s">>

starts_with(s, p) == Len(s) >= Len(p) /\ SubSeq(s, 1, Len(p)) = p

None == [some |-> FALSE, val |-> 0]
Some(v) == [some |-> TRUE, val |-> v]

SetMin(S) == CHOOSE x \in S : \A y \in S : x <= y

\* str::find: byte offset of the first occurrence of pat in s
find(s, pat) ==
    LET hits == {i \in 1..(Len(s) - Len(pat) + 1) :
                    SubSeq(s, i, i + Len(pat) - 1) = pat}
    IN  IF hits = {} THEN None
        ELSE Some(ByteSize(SubSeq(s, 1, SetMin(hits) - 1)))

\* character positions k such that the first k characters take mid bytes
Boundary(s, mid) == {k \in 0..Len(s) : ByteSize(SubSeq(s, 1, k)) = mid}

\* str::split_at(mid).1; panics when mid is past the end or inside a character
split_at_1(s, mid) ==
    IF Boundary(s, mid) = {} THEN [kind |-> "Panic", val |-> <<>>]
    ELSE LET k == SetMin(Boundary(s, mid))
         IN  [kind |-> "Ok", val |-> SubSeq(s, k + 1, Len(s))]

DigitVal(c) ==
    CASE c = "0" -> 0 [] c = "1" -> 1 [] c = "2" -> 2 [] c = "3" -> 3
      [] c = "4" -> 4 [] c = "5" -> 5 [] c = "6" -> 6 [] c = "7" -> 7
      [] c = "8" -> 8 [] c = "9" -> 9

\* the digit loop of u16::from_str: checked multiply and add, None on a
\* character that is no digit and on overflow past u16::MAX
RECURSIVE ParseDigits(_, _)
ParseDigits(s, acc) ==
    IF s = <<>> THEN Some(acc)
    ELSE IF Head(s) \notin Digits THEN None
    ELSE LET v == acc * 10 + DigitVal(Head(s))
         IN  IF v > U16_MAX THEN None ELSE ParseDigits(Tail(s), v)

\* str::parse::<u16>().ok(): empty input, a lone sign, a non-digit and an
\* overflow all give None; one leading "+" is accepted
parse_u16(s) ==
    IF s = <<>> THEN None
    ELSE IF Head(s) = "+"
         THEN (IF Tail(s) = <<>> THEN None ELSE ParseDigits(Tail(s), 0))
         ELSE ParseDigits(s, 0)

min(a, b) == IF a <= b THEN a ELSE b
max(a, b) == IF a >= b THEN a ELSE b

unwrap_or(o, d) == IF o.some THEN o.val ELSE d

\* utils::get_query_param
get_query_param(query) ==
    LET pos == find(query, <<"?", "q">>)
        cut == split_at_1(query, pos.val + 3)
    IN  IF pos.some /\ cut.kind = "Panic" THEN [kind |-> "Panic", val |-> 0]
        ELSE LET q == IF pos.some THEN unwrap_or(parse_u16(cut.val), DefaultQ)
                      ELSE DefaultQ
             IN  [kind |-> "Ok", val |-> min(ClampHi, max(ClampLo, q))]

---------------------------------------------------------------------------
(* Results. *)

Ok(v) == [kind |-> "Ok", val |-> v, err |-> "none"]
Err(e) == [kind |-> "Err", val |-> <<>>, err |-> e]
Panic == [kind |-> "Panic", val |-> <<>>, err |-> "none"]

---------------------------------------------------------------------------
(* The users table and the database session. *)

Names == {"Ann", "Bob"}

Row(i) == [id |-> i, firstName |-> "Ann", lastName |-> "Bob"]

Asc(n) == [i \in 1..n |-> Row(i)]
Desc(n) == [i \in 1..n |-> Row(n + 1 - i)]

\* tables of 0..MaxRows rows with distinct ids, in two database orders
Tables == {Asc(n) : n \in 0..MaxRows} \cup {Desc(n) : n \in 0..MaxRows}

\* ids a caller asks for: present in most tables, and never present
OpIds == {1, 2, 500}

\* struct User, filled positionally from a row
User(row) == [id |-> row.id, firstName |-> row.firstName,
              lastName |-> row.lastName]

Matching(tbl, id) == SelectSeq(tbl, LAMBDA r : r.id = id)

\* Client::query_one on "SELECT id, firstName, lastName FROM users WHERE
\* id=$1": an error unless exactly one row comes back
query_one(tbl, id, fault) ==
    IF fault THEN Err("QueryFailed")
    ELSE IF Len(Matching(tbl, id)) # 1 THEN Err("NotFound")
    ELSE Ok(Matching(tbl, id)[1])

\* the row stream of "SELECT id, firstName, lastName FROM users LIMIT 10"
select_limit(tbl, fault) ==
    IF fault THEN <<Err("QueryFailed")>>
    ELSE [i \in 1..min(Limit, Len(tbl)) |-> Ok(tbl[i])]

\* the statement text update() assembles with its two push_str calls
update_stmt ==
    <<"UPDATE users SET firstName = $1, lastName = $2 FROM ", "(", "VALUES ",
      " WHERE id = $3">>

Count(s, tok) == Len(SelectSeq(s, LAMBDA t : t = tok))

\* the database parses a statement only if its parentheses balance
WellFormed(stmt) == Count(stmt, "(") = Count(stmt, ")")

SetNames(tbl, id, f, l) ==
    [i \in 1..Len(tbl) |->
        IF tbl[i].id = id
        THEN [id |-> id, firstName |-> f, lastName |-> l]
        ELSE tbl[i]]

\* the session executing the update statement: [res, tbl]
execute_update(tbl, stmt, id, f, l, fault) ==
    IF fault \/ ~WellFormed(stmt)
    THEN [res |-> Err("QueryFailed"), tbl |-> tbl]
    ELSE [res |-> Ok(Len(Matching(tbl, id))), tbl |-> SetNames(tbl, id, f, l)]

---------------------------------------------------------------------------
(* PgConnection operations: each gives [res, tbl], the Result and the      *)
(* table afterwards.                                                       *)

\* get_user changed to fill a User with defaults when no row came back
get_user_default(tbl, id, fault) ==
    LET row == query_one(tbl, id, fault)
    IN  IF row.kind = "Err" /\ row.err = "NotFound"
        THEN [res |-> Ok([id |-> id, firstName |-> "", lastName |-> ""]),
              tbl |-> tbl]
        ELSE IF row.kind = "Err" THEN [res |-> row, tbl |-> tbl]
        ELSE [res |-> Ok(User(row.val)), tbl |-> tbl]

\* PgConnection::get_user
get_user(tbl, id, fault) ==
    LET row == query_one(tbl, id, fault)
    IN  IF row.kind = "Err" THEN [res |-> row, tbl |-> tbl]
        ELSE [res |-> Ok(User(row.val)), tbl |-> tbl]

\* PgConnection::get_users: rows.next() is taken once; None is unreachable!()
get_users(tbl, fault) ==
    LET rows == select_limit(tbl, fault)
    IN  IF Len(rows) = 0 THEN [res |-> Panic, tbl |-> tbl]
        ELSE IF rows[1].kind = "Err" THEN [res |-> rows[1], tbl |-> tbl]
        ELSE [res |-> Ok(<<User(rows[1].val)>>), tbl |-> tbl]

\* PgConnection::update; the Vec it returns on success is modelled as the
\* record echoed from the arguments
update(tbl, id, f, l, fault) ==
    LET done == execute_update(tbl, update_stmt, id, f, l, fault)
    IN  IF done.res.kind = "Err" THEN done
        ELSE [res |-> Ok(<<[id |-> id, firstName |-> f, lastName |-> l]>>),
              tbl |-> done.tbl]

---------------------------------------------------------------------------
(* App::call as a function of the table and the request. *)

NoRes == [kind |-> "none", val |-> <<>>, err |-> "none"]

Outcome(op, id, res, status, ctype, body, panic, tbl) ==
    [op |-> op, id |-> id, res |-> res, status |-> status, ctype |-> ctype,
     body |-> body, panic |-> panic, tbl |-> tbl]

\* Result::unwrap panics on Err; a panic inside the callee keeps unwinding
unwrap_panics(res) == res.kind # "Ok"

\* the "/users" arm
users_arm(tbl, fault) ==
    LET r == get_users(tbl, fault)
    IN  IF unwrap_panics(r.res)
        THEN Outcome("get_users", 0, r.res, "none", "none", <<>>, TRUE, r.tbl)
        ELSE Outcome("get_users", 0, r.res, "200", "text/html", r.res.val,
                     FALSE, r.tbl)

\* the arm of a path that starts with "/webhook"
webhook_arm(tbl, p, f, l, fault) ==
    LET q == get_query_param(p)
        r == update(tbl, q.val, f, l, fault)
    IN  IF q.kind = "Panic"
        THEN Outcome("none", 0, NoRes, "none", "none", <<>>, TRUE, tbl)
        ELSE IF unwrap_panics(r.res)
        THEN Outcome("update", q.val, r.res, "none", "none", <<>>, TRUE, r.tbl)
        ELSE Outcome("update", q.val, r.res, "200", "application/json",
                     r.res.val, FALSE, r.tbl)

\* the match of App::call
route(tbl, p, f, l, fault) ==
    IF p = USERS THEN users_arm(tbl, fault)
    ELSE IF starts_with(p, WEBHOOK) THEN webhook_arm(tbl, p, f, l, fault)
    ELSE Outcome("none", 0, NoRes, "404", "none", <<>>, FALSE, tbl)

---------------------------------------------------------------------------
(* The pool. *)

Conns == 1..MaxConns

Idle == [pc |-> "idle", idx |-> 0, db |-> 0]

\* a PgConnection: an open session and its prepared statement
PgConnection(k) == [id |-> k, client |-> TRUE, user |-> TRUE]

\* fetch_add changed to hand back the value it stored
fetch_add_post(c, n) == [old |-> (c + n) % UsizeMod, new |-> (c + n) % UsizeMod]

\* fetch_add changed to store the counter reduced to a slot number
fetch_add_reduced(c, n) == [old |-> c, new |-> (c + n) % size]

\* AtomicUsize::fetch_add: the value before, and the value stored
fetch_add(c, n) == [old |-> c, new |-> (c + n) % UsizeMod]

\* the slot changed to advance only on every second counter value
slot_every_second(i, len) == (i \div 2) % len

\* the slot changed to saturate at the last one instead of cycling
slot_saturating(i, len) == IF i < len THEN i ELSE len - 1

\* the slot get_connection indexes
slot_of(i, len) == i % len

NoOp == [op |-> "none", id |-> 0, firstName |-> "", lastName |-> "",
         fault |-> FALSE, res |-> NoRes]

NoRsp == [conn |-> 0, path |-> <<>>, op |-> "none", id |-> 0, res |-> NoRes,
          status |-> "none", ctype |-> "none", body |-> <<>>,
          panic |-> FALSE]

NoQ == [kind |-> "none", val |-> 0]

\* PgConnection::new changed to go on without the statement when prepare
\* fails, the PgConnection being pushed all the same
PgConnection_new_lenient(connect_ok, prepare_ok) ==
    /\ phase = "starting"
    /\ Len(clients) < size
    /\ IF connect_ok
       THEN /\ clients' = Append(clients, [id |-> Len(clients) + 1,
                                           client |-> TRUE,
                                           user |-> prepare_ok])
            /\ phase' = phase
       ELSE /\ phase' = "aborted"
            /\ clients' = clients
    /\ UNCHANGED <<size, idx, app, acq, table, lastOp, prevOp, rsp, path, qres>>

\* one iteration of the loop of PgConnectionPool::new: PgConnection::new
\* unwraps connect and prepare, so a failure of either ends main()
PgConnection_new(connect_ok, prepare_ok) ==
    /\ phase = "starting"
    /\ Len(clients) < size
    /\ IF connect_ok /\ prepare_ok
       THEN /\ clients' = Append(clients, PgConnection(Len(clients) + 1))
            /\ phase' = phase
       ELSE /\ phase' = "aborted"
            /\ clients' = clients
    /\ UNCHANGED <<size, idx, app, acq, table, lastOp, prevOp, rsp, path, qres>>

\* main(): the pool is complete and server.start() begins to accept
server_start ==
    /\ phase = "starting"
    /\ Len(clients) = size
    /\ phase' = "serving"
    /\ UNCHANGED <<size, clients, idx, app, acq, table, lastOp, prevOp, rsp,
                   path, qres>>

\* get_connection changed to a load and a later store in place of
\* fetch_add: a caller that loads while another is between its load and
\* its store sees the value the other saw, and one increment is lost
get_connection_racy(d) ==
    /\ phase = "serving"
    /\ app[d].pc = "idle"
    /\ d = Len(acq) + 1
    /\ LET inflight == {e \in Conns : app[e].pc = "fetched"}
           seen == IF inflight = {} THEN idx
                   ELSE app[CHOOSE e \in inflight : TRUE].idx
       IN  /\ idx' = (seen + 1) % UsizeMod
           /\ app' = [app EXCEPT ![d] = [pc |-> "fetched", idx |-> seen,
                                         db |-> 0]]
    /\ acq' = Append(acq, d)
    /\ UNCHANGED <<phase, size, clients, table, lastOp, prevOp, rsp, path, qres>>

\* get_connection changed into a checkout that waits for a slot no App holds
get_connection_checkout(d) ==
    /\ phase = "serving"
    /\ app[d].pc = "idle"
    /\ d = Len(acq) + 1
    /\ \A e \in Conns :
          app[e].pc \in {"fetched", "bound"}
            => slot_of(app[e].idx, Len(clients)) # slot_of(idx, Len(clients))
    /\ idx' = fetch_add(idx, 1).new
    /\ app' = [app EXCEPT ![d] = [pc |-> "fetched",
                                  idx |-> fetch_add(idx, 1).old, db |-> 0]]
    /\ acq' = Append(acq, d)
    /\ UNCHANGED <<phase, size, clients, table, lastOp, prevOp, rsp, path, qres>>

\* new_service, first step: the fetch_add of get_connection.  Network
\* connections are numbered in the order in which they are accepted.
get_connection_fetch_add(d) ==
    /\ phase = "serving"
    /\ app[d].pc = "idle"
    /\ d = Len(acq) + 1
    /\ idx' = fetch_add(idx, 1).new
    /\ app' = [app EXCEPT ![d] = [pc |-> "fetched",
                                  idx |-> fetch_add(idx, 1).old, db |-> 0]]
    /\ acq' = Append(acq, d)
    /\ UNCHANGED <<phase, size, clients, table, lastOp, prevOp, rsp, path, qres>>

\* new_service, second step: get_connection indexes clients (a panic when
\* the Vec is empty) and new_service builds the App around the clone
new_service(d) ==
    /\ phase = "serving"
    /\ app[d].pc = "fetched"
    /\ IF Len(clients) = 0
       THEN app' = [app EXCEPT ![d].pc = "panicked"]
       ELSE app' = [app EXCEPT ![d] =
                [pc |-> "bound", idx |-> app[d].idx,
                 db |-> clients[slot_of(app[d].idx, Len(clients)) + 1].id]]
    /\ UNCHANGED <<phase, size, clients, idx, acq, table, lastOp, prevOp, rsp,
                   path, qres>>

---------------------------------------------------------------------------
(* The Dispatcher. *)

Q501 == <<"?", "q", "=", "5", "0", "1">>

\* request paths the network connections send
Paths == {USERS, WEBHOOK, WEBHOOK \o Q501, USERS \o <<"/">>, <<"/">>}

\* App::call changed to take a connection from the pool for every request
call_per_request(d, p, f, l, fault) ==
    /\ phase = "serving"
    /\ app[d].pc = "bound"
    /\ idx' = fetch_add(idx, 1).new
    /\ LET o == route(table, p, f, l, fault)
           db == clients[slot_of(fetch_add(idx, 1).old, Len(clients)) + 1].id
       IN  /\ rsp' = [conn |-> d, path |-> p, op |-> o.op, id |-> o.id,
                      res |-> o.res, status |-> o.status, ctype |-> o.ctype,
                      body |-> o.body, panic |-> o.panic]
           /\ table' = o.tbl
           /\ app' = [app EXCEPT ![d].db = db,
                       ![d].pc = IF o.panic THEN "panicked" ELSE "bound"]
    /\ UNCHANGED <<phase, size, clients, acq, lastOp, prevOp, path, qres>>

\* App::call on network connection d; a panic ends the task
call(d, p, f, l, fault) ==
    /\ phase = "serving"
    /\ app[d].pc = "bound"
    /\ LET o == route(table, p, f, l, fault)
       IN  /\ rsp' = [conn |-> d, path |-> p, op |-> o.op, id |-> o.id,
                      res |-> o.res, status |-> o.status, ctype |-> o.ctype,
                      body |-> o.body, panic |-> o.panic]
           /\ table' = o.tbl
           /\ app' = IF o.panic THEN [app EXCEPT ![d].pc = "panicked"]
                     ELSE app
    /\ UNCHANGED <<phase, size, clients, idx, acq, lastOp, prevOp, path, qres>>

---------------------------------------------------------------------------
(* The operations of one PgConnection, called one after the other. *)

Record(op, id, f, l, fault, r) ==
    /\ prevOp' = lastOp
    /\ lastOp' = [op |-> op, id |-> id, firstName |-> f, lastName |-> l,
                  fault |-> fault, res |-> r.res]
    /\ table' = r.tbl
    /\ UNCHANGED <<phase, size, clients, idx, app, acq, rsp, path, qres>>

call_get_user(id, fault) ==
    /\ phase = "serving"
    /\ Record("get_user", id, "", "", fault, get_user(table, id, fault))

call_get_users(fault) ==
    /\ phase = "serving"
    /\ Record("get_users", 0, "", "", fault, get_users(table, fault))

call_update(id, f, l, fault) ==
    /\ phase = "serving"
    /\ Record("update", id, f, l, fault, update(table, id, f, l, fault))

---------------------------------------------------------------------------
(* get_query_param applied to one path. *)

SeqsUpTo(S, n) == UNION {[1..k -> S] : k \in 0..n}

HeadChars == {"?", "q", "=", "a", "e_acute"}
TailChars == {"0", "1", "5", "9"}

ParamInputs ==
    {WEBHOOK \o h \o t : h \in SeqsUpTo(HeadChars, MaxHead),
                         t \in SeqsUpTo(TailChars, MaxDigits)}

call_get_query_param ==
    /\ qres.kind = "none"
    /\ qres' = get_query_param(path)
    /\ UNCHANGED <<phase, size, clients, idx, app, acq, table, lastOp, prevOp,
                   rsp, path>>

---------------------------------------------------------------------------
(* Specifications. *)

\* the tables the served requests run against
ServedTables == {Asc(0), Asc(2)}

\* the program from the start of main()
Init ==
    /\ phase = "starting"
    /\ size \in 1..MaxPool
    /\ clients = <<>>
    /\ idx = 0
    /\ app = [d \in Conns |-> Idle]
    /\ acq = <<>>
    /\ table \in ServedTables
    /\ lastOp = NoOp
    /\ prevOp = NoOp
    /\ rsp = NoRsp
    /\ path = <<>>
    /\ qres = NoQ

Next ==
    \/ \E c, s \in BOOLEAN : PgConnection_new(c, s)
    \/ server_start
    \/ \E d \in Conns : get_connection_fetch_add(d)
    \/ \E d \in Conns : new_service(d)
    \/ \E d \in Conns, p \in Paths, f, l \in Names, fault \in BOOLEAN :
          call(d, p, f, l, fault)

Spec == Init /\ [][Next]_vars

\* a serving process with a pool of one PgConnection
Serving1 ==
    /\ phase = "serving"
    /\ size = 1
    /\ clients = <<PgConnection(1)>>
    /\ idx = 0
    /\ app = [d \in Conns |-> Idle]
    /\ acq = <<>>
    /\ lastOp = NoOp
    /\ prevOp = NoOp
    /\ rsp = NoRsp

\* one PgConnection and a caller of its three operations
InitConn ==
    /\ Serving1
    /\ table \in Tables
    /\ path = <<>>
    /\ qres = NoQ

NextConn ==
    \/ \E id \in OpIds, fault \in BOOLEAN : call_get_user(id, fault)
    \/ \E fault \in BOOLEAN : call_get_users(fault)
    \/ \E id \in OpIds, f, l \in Names, fault \in BOOLEAN :
          call_update(id, f, l, fault)

SpecConn == InitConn /\ [][NextConn]_vars

\* get_query_param on every generated path
InitParam ==
    /\ Serving1
    /\ table = <<>>
    /\ path \in ParamInputs
    /\ qres = NoQ

NextParam == call_get_query_param

SpecParam == InitParam /\ [][NextParam]_vars

\* a serving pool whose counter has reached any value of its range: the
\* network connections that brought it there are closed, new ones arrive
InitWrap ==
    /\ phase = "serving"
    /\ size \in 1..MaxWrapPool
    /\ clients = [k \in 1..size |-> PgConnection(k)]
    /\ idx \in 0..(UsizeMod - 1)
    /\ app = [d \in Conns |-> Idle]
    /\ acq = <<>>
    /\ table = Asc(2)
    /\ lastOp = NoOp
    /\ prevOp = NoOp
    /\ rsp = NoRsp
    /\ path = <<>>
    /\ qres = NoQ

\* request paths sent under SpecWrap
WrapPaths == {USERS, <<"/">>}

NextWrap ==
    \/ \E d \in Conns : get_connection_fetch_add(d)
    \/ \E d \in Conns : new_service(d)
    \/ \E d \in Conns, p \in WrapPaths, fault \in BOOLEAN :
          call(d, p, "Ann", "Ann", fault)

SpecWrap == InitWrap /\ [][NextWrap]_vars

---------------------------------------------------------------------------
(* Properties. *)

\* network connection d holds a PgConnection in its App
HasConn(d) == app[d].db # 0

\* the pool slot, counted from 0, of the PgConnection d holds
SlotOf(d) == (CHOOSE k \in 1..Len(clients) : clients[k].id = app[d].db) - 1

\* the network connections whose new_service has returned, in acq order
Served(k) == k \in 1..Len(acq) /\ HasConn(acq[k])

\* C1: on a fresh pool of size N the first N get_connection calls select
\* pairwise distinct slots, all in 0..N-1, and call N+1 selects slot 0 again.
C1_cyclic_round_robin ==
    /\ \A k \in 1..size :
          Served(k) => SlotOf(acq[k]) \in 0..(size - 1)
    /\ \A j, k \in 1..size :
          (Served(j) /\ Served(k) /\ j # k) => SlotOf(acq[j]) # SlotOf(acq[k])
    /\ Served(size + 1) => SlotOf(acq[size + 1]) = 0

C1_witness ==
    /\ size >= 2
    /\ \A k \in 1..(size + 1) : Served(k)

\* C2 as claimed: the k-th get_connection on a fresh pool returns the
\* PgConnection at slot k mod size, the counter value after the increment.
C2_post_increment_slot ==
    \A k \in 1..Len(acq) : Served(k) => SlotOf(acq[k]) = k % size

\* C2 amended: every get_connection adds one to the counter, and the k-th
\* on a fresh pool returns the counter value before its increment, k - 1,
\* with the PgConnection at slot (k - 1) mod size.
C2_pre_increment_slot ==
    /\ idx = Len(acq) % UsizeMod
    /\ \A k \in 1..Len(acq) :
          /\ app[acq[k]].idx = k - 1
          /\ Served(k) =>
                app[acq[k]].db = clients[((k - 1) % size) + 1].id

C2_witness ==
    /\ size >= 2
    /\ Served(2)
    /\ SlotOf(acq[2]) = 1
    /\ app[acq[2]].idx = 1

\* C3: while serving, a get_connection in progress can always take its
\* next step whatever the other callers have done or hold, no caller
\* panics in it, every App holds one of the PgConnections made at startup,
\* and the pool holds exactly those, also with more Apps than slots.
C3_acquire_never_blocks ==
    phase = "serving" =>
        /\ \A d \in Conns :
              (app[d].pc = "idle" /\ d = Len(acq) + 1)
                 => ENABLED get_connection_fetch_add(d)
        /\ \A d \in Conns : app[d].pc = "fetched" => ENABLED new_service(d)
        /\ \A d \in Conns : ~(app[d].pc = "panicked" /\ ~HasConn(d))
        /\ \A d \in Conns :
              app[d].pc = "bound" =>
                 \E k \in 1..size : app[d].db = PgConnection(k).id
        /\ clients = [k \in 1..size |-> PgConnection(k)]

C3_witness ==
    /\ Len(acq) > size
    /\ \A k \in 1..Len(acq) : app[acq[k]].pc = "bound"
    /\ \E j, k \in 1..Len(acq) : j # k /\ app[acq[j]].db = app[acq[k]].db

\* C4: when the PgConnection operation App::call invoked has returned a
\* failure, the call has produced an HTTP error response and the task has
\* not panicked.
C4_failure_becomes_error_response ==
    rsp.res.kind = "Err" =>
        /\ ~rsp.panic
        /\ rsp.status \notin {"none", "200"}

\* C5: a network connection takes its PgConnection in one get_connection,
\* the one of its new_service; App::call leaves the counter and every App's
\* PgConnection as they are; the i-th accepted network connection, counted
\* from 0, holds the PgConnection at slot i mod size.
C5_dispatcher_binding ==
    [][ /\ \A k \in 1..Len(acq') :
              HasConn(acq[k])' => SlotOf(acq[k])' = (k - 1) % size'
        /\ \A d \in Conns : HasConn(d) => app'[d].db = app[d].db
        /\ \A d \in Conns :
              (~HasConn(d) /\ HasConn(d)') => (idx' = idx /\ acq' = acq)
        /\ acq' # acq =>
              (idx' = idx + 1 /\ \E d \in Conns : acq' = Append(acq, d))
        /\ rsp' # rsp =>
              (idx' = idx /\ acq' = acq
               /\ \A d \in Conns : app'[d].db = app[d].db)
      ]_vars

C5_witness ==
    /\ size = 2
    /\ Len(acq) = 3
    /\ \A k \in 1..3 : Served(k)
    /\ <<SlotOf(acq[1]), SlotOf(acq[2]), SlotOf(acq[3])>> = <<0, 1, 0>>
    /\ rsp.conn = acq[3]
    /\ rsp.status = "200"

\* the request path up to the value of q
QPrefix == WEBHOOK \o <<"?", "q", "=">>

\* what follows "?q=" in path
QValue == SubSeq(path, Len(QPrefix) + 1, Len(path))

IsNumber(t) == t # <<>> /\ \A i \in 1..Len(t) : t[i] \in Digits

\* the number a string of digits writes
RECURSIVE Decimal(_)
Decimal(t) ==
    IF t = <<>> THEN 0
    ELSE Decimal(SubSeq(t, 1, Len(t) - 1)) * 10 + DigitVal(t[Len(t)])

\* C6: for a path "/webhook?q=<digits>" the row id is
\* min(500, max(1, q)) whatever the magnitude of q, and it is 1 when q is
\* no integer or the path has no query string.
C6_query_param_clamp ==
    qres.kind # "none" =>
        /\ (starts_with(path, QPrefix) /\ IsNumber(QValue)) =>
              qres = [kind |-> "Ok",
                      val |-> min(500, max(1, Decimal(QValue)))]
        /\ (starts_with(path, QPrefix) /\ ~IsNumber(QValue)) =>
              qres = [kind |-> "Ok", val |-> 1]
        /\ (\A i \in 1..Len(path) : path[i] # "?") =>
              qres = [kind |-> "Ok", val |-> 1]

\* C7: "/users" on a table without rows, the select itself not failing:
\* get_users returns Ok with an empty Vec, the task does not panic and the
\* response is a 200 with no user rows.
C7_empty_table_lists_nothing ==
    (rsp.op = "get_users" /\ Len(table) = 0 /\ rsp.res.kind # "Err") =>
        /\ rsp.res.kind = "Ok"
        /\ Len(rsp.res.val) = 0
        /\ ~rsp.panic
        /\ rsp.status = "200"
        /\ Len(rsp.body) = 0

\* C8, on a table with at least one row (C7 is the table without rows):
\* get_users, the select itself not failing, returns one User per row the
\* select returned, in their order: the first min(10, rows) rows.
C8_list_returns_selected_rows ==
    (lastOp.op = "get_users" /\ ~lastOp.fault /\ Len(table) >= 1) =>
        /\ lastOp.res.kind = "Ok"
        /\ lastOp.res.val =
              [i \in 1..min(Limit, Len(table)) |-> User(table[i])]

C10_lookup_of_missing_row ==
    [][ \A id \in OpIds, fault \in BOOLEAN :
          (call_get_user(id, fault) /\ Len(Matching(table, id)) = 0) =>
              /\ lastOp'.res.kind = "Err"
              /\ ~fault => lastOp'.res.err = "NotFound"
              /\ table' = table
      ]_vars

C10_witness ==
    /\ lastOp.op = "get_user"
    /\ ~lastOp.fault
    /\ Len(table) >= 1
    /\ Len(Matching(table, lastOp.id)) = 0
    /\ lastOp.res.err = "NotFound"


\* C11: update(id, f, l) with no row of that id, the session not failing,
\* returns the failure NotFound, not a success nor an echoed record, and
\* the table is as before.
C11_update_of_missing_row ==
    [][ \A id \in OpIds, f \in Names, l \in Names :
          (call_update(id, f, l, FALSE) /\ Len(Matching(table, id)) = 0) =>
              /\ lastOp'.res.kind = "Err"
              /\ lastOp'.res.err = "NotFound"
              /\ table' = table
      ]_vars


\* a network connection has been accepted or a request handled
Accepting ==
    \/ acq # <<>>
    \/ rsp # NoRsp
    \/ \E d \in Conns : app[d].pc # "idle"

\* every pool slot filled so far holds an open session with its statement
SlotsReady ==
    \A k \in 1..Len(clients) : clients[k].client /\ clients[k].user

\* C12: nothing is accepted before the pool holds all size PgConnections,
\* each with its session open and its statement prepared; a PgConnection
\* enters its slot prepared and the slot is never written again; a failed
\* connect or prepare aborts startup, and an aborted start never serves.
C12_startup_ordering ==
    [][ /\ Accepting' => phase' = "serving"
        /\ phase' = "serving" => Len(clients') = size'
        /\ SlotsReady'
        /\ clients' # clients =>
              /\ phase = "starting"
              /\ Len(clients') = Len(clients) + 1
              /\ SubSeq(clients', 1, Len(clients)) = clients
        /\ \A c, s \in BOOLEAN :
              (PgConnection_new(c, s) /\ ~(c /\ s)) => phase' = "aborted"
        /\ phase = "aborted" => phase' = "aborted"
      ]_vars

C12_witness ==
    /\ phase = "serving"
    /\ size = MaxPool
    /\ SlotsReady
    /\ \E d \in Conns : app[d].pc = "bound" /\ rsp.conn = d


\* C13: when the PgConnection operation of a request fails, only that
\* request fails: its Dispatcher is still serving its network connection,
\* every other Dispatcher is as it was, and the pool and the table are
\* untouched.
C13_failure_isolation ==
    [][ \A d \in Conns, p \in Paths, f \in Names, l \in Names,
           fault \in BOOLEAN :
          (call(d, p, f, l, fault) /\ rsp'.res.kind = "Err") =>
              /\ app'[d].pc = "bound"
              /\ \A e \in Conns \ {d} : app'[e] = app[e]
              /\ clients' = clients
              /\ table' = table
      ]_vars

\* C14: every handled request has one response and at most one
\* PgConnection operation: "/users" exactly runs get_users, a path that
\* starts with "/webhook" runs update, and any other path runs nothing and
\* is answered 404 with an empty body.
C14_routing ==
    rsp.conn # 0 =>
        /\ rsp.status # "none"
        /\ ~rsp.panic
        /\ rsp.path = USERS => rsp.op = "get_users"
        /\ (rsp.path # USERS /\ starts_with(rsp.path, WEBHOOK)) =>
              rsp.op = "update"
        /\ (rsp.path # USERS /\ ~starts_with(rsp.path, WEBHOOK)) =>
              (rsp.op = "none" /\ rsp.status = "404" /\ rsp.body = <<>>)


\* the counter values the get_connection calls so far have observed
RawValues == {app[acq[k]].idx : k \in 1..Len(acq)}

\* how many of the counter values 0..n-1 fall on slot s
Share(n, s) == Cardinality({i \in 0..(n - 1) : i % size = s})

\* how many Apps hold the PgConnection of slot s
Holders(s) == Cardinality({k \in 1..Len(acq) : Served(k) /\ SlotOf(acq[k]) = s})

\* C15: whatever the interleaving of the K get_connection calls so far, no
\* two have observed the same counter value, the values observed are K
\* consecutive integers, the counter has advanced by exactly K, and once
\* all K have returned the number of Apps on each slot is fixed by K alone.
C15_acquires_totally_ordered ==
    /\ \A j, k \in 1..Len(acq) :
          j # k => app[acq[j]].idx # app[acq[k]].idx
    /\ RawValues = 0..(Len(acq) - 1)
    /\ idx = Len(acq)
    /\ (\A k \in 1..Len(acq) : Served(k)) =>
          \A s \in 0..(size - 1) : Holders(s) = Share(Len(acq), s)

C15_witness ==
    /\ Len(acq) = 3
    /\ app[acq[1]].pc = "fetched"
    /\ app[acq[2]].pc = "fetched"
    /\ app[acq[3]].pc = "bound"


\* the pool holds the size PgConnections made at startup, in their slots
PoolIntact ==
    /\ size >= 1
    /\ clients = [k \in 1..size |-> PgConnection(k)]

\* C16 as claimed: the pool is intact in every state, no step changes it,
\* and the counter never decreases from one state to the next.
C16_counter_never_decreases ==
    [][ /\ PoolIntact'
        /\ clients' = clients
        /\ idx' >= idx
      ]_vars

\* C16 amended: the pool is intact in every state, no step changes it, and
\* the counter never decreases from one state to the next except in the
\* fetch_add at its largest value, which wraps it to 0.
C16_counter_wraps_only_at_max ==
    [][ /\ PoolIntact'
        /\ clients' = clients
        /\ idx' >= idx \/ (idx = UsizeMod - 1 /\ idx' = 0)
      ]_vars

C16_witness ==
    /\ PoolIntact
    /\ idx = 0
    /\ \E k \in 1..Len(acq) : Served(k) /\ app[acq[k]].idx = UsizeMod - 1
    /\ rsp.conn # 0

\* C17: with two or more slots, two consecutive get_connection calls never
\* select the same slot, at any value of the counter: the later call
\* selects the cyclic successor of the slot the earlier one selected.
C17_consecutive_slots_differ ==
    size >= 2 =>
        \A k \in 1..(Len(acq) - 1) :
            (Served(k) /\ Served(k + 1)) =>
                /\ SlotOf(acq[k + 1]) # SlotOf(acq[k])
                /\ SlotOf(acq[k + 1]) = (SlotOf(acq[k]) + 1) % size


C19_get_query_param_total ==
    qres.kind # "none" =>
        /\ qres.kind = "Ok"
        /\ qres.val \in 1..500

=============================================================================
